---- MODULE Spec2Model ----
(***************************************************************************)
(* Session security core of the municipality blog backend:                 *)
(*   - FailedLoginTracker   (backend/src/middleware/authRateLimiter.ts)     *)
(*   - TokenBlacklistService (backend/src/utils/tokenBlacklist.ts)          *)
(*   - authenticate / requireAdmin (backend/src/middleware/auth.ts)         *)
(*   - login / logout       (backend/src/controllers/authController.ts)     *)
(* Times are Date.now() values in milliseconds.                            *)
(***************************************************************************)
EXTENDS Integers, Sequences, FiniteSets, TLC

VARIABLES
    now,        \* Date.now(), milliseconds
    attempts,   \* FailedLoginTracker.attempts : Map<identifier, record>
    trail,      \* history: per identifier, the times of the recordFailure calls
                \*          made since its record was last absent
    calls,      \* history: the last two tracker calls, oldest first: the
                \*          call, what it returned and the count it found
    blockedAt,  \* history: per identifier, the time of the recordFailure call
                \*          that last returned true on a record not yet blocked
    reqs,       \* login requests suspended at an await: a bag of
                \*          [email, password, ip, stage, user]; user is the row
                \*          the account query returned, once it has
    resp,       \* the last response login sent (and the password it answers)
    overlapped, \* history: some login request started while another was in flight
    secret,     \* process.env["JWT_SECRET"] is set
    held,       \* the token login returned that the client keeps and presents again
    blacklist,  \* TokenBlacklistService.blacklist: Map<token, expiresAt in ms>
    sweepDue,   \* when the cleanup interval fires next
    authResp,   \* the outcome of the last authenticate call, with the header it
                \*          was given; turn flips at every call, revoked says
                \*          whether the token was in loggedOut when it was called,
                \*          rows is the users table as it was then
    outResp,    \* the last response logout sent
    loggedOut,  \* history: the kept tokens for which logout has answered 200
                \*          since clearAll was last called
    adminResp,  \* the outcome of the last requireAdmin call, with the identity
                \*          the request carried
    proc,       \* the server process: its phase (running, closing after a
                \*          signal, exited), when the signal came, and whether
                \*          the blacklist's cleanup interval is set
    users,      \* the rows of the users table
    issued      \* history: the tokens login returned, each with the Date.now()
                \*          at which it was signed and the row login had read

\* the state of the blacklist, authenticate and logout
authVars == <<blacklist, sweepDue, authResp, outResp, loggedOut, adminResp, proc>>

\* the account store and the record of the tokens issued
sessionVars == <<users, issued>>

vars == <<now, attempts, trail, calls, blockedAt, reqs, resp, overlapped, secret, held,
          authVars, sessionVars>>

----------------------------------------------------------------------------
(* Bounds of the model *)

MaxWindows == 5      \* the tracker's clock runs over 0 .. MaxWindows windows of 15 minutes
MaxOffset == 1       \* and, around each of those instants, 0 .. MaxOffset ms later
MaxTrail == 4        \* recordFailure calls followed per identifier
MaxRequests == 5     \* racing logins: requests in flight or on record as failures
MaxLoad == 4         \* logins: requests in flight or on record as failures
MaxBlocks == 1       \* the login clock runs over 0 .. MaxBlocks block durations (and 1 ms later)
MaxSweeps == 1       \* the token clock visits 0 .. MaxSweeps cleanup intervals
MaxIssue == 1        \* logins that issue tokens are followed in seconds 0 .. MaxIssue
MaxTokens == 2       \* tokens followed from issuance to expiry in one session

----------------------------------------------------------------------------
(* FailedLoginTracker *)

MAX_ATTEMPTS == 3
WINDOW_MS == 15 * 60 * 1000
BLOCK_DURATION_MS == 60 * 60 * 1000
MINUTE_MS == 60 * 1000

Emails == {"a@x.com", "A@x.com", "b@x.com"}
Ips == {"10.0.0.1", "10.0.0.2"}

\* an e-mail address taken as it was typed
toLowerCase_AsTyped(email) == email

\* String.prototype.toLowerCase on the e-mail addresses of the model
toLowerCase(email) == IF email = "A@x.com" THEN "a@x.com" ELSE email

\* `${email.toLowerCase()}:${clientIp}`
Identifier(email, ip) == <<toLowerCase(email), ip>>

Identifiers == {Identifier(e, i) : e \in Emails, i \in Ips}

HasRecord(att, id) == id \in DOMAIN att

MapSet(m, k, v) == [x \in DOMAIN m \cup {k} |-> IF x = k THEN v ELSE m[x]]

MapDelete(m, k) == [x \in DOMAIN m \ {k} |-> m[x]]

FreshRecord(t) == [count |-> 1, firstAttempt |-> t, blocked |-> FALSE]

\* recordFailure that blocks only above the threshold (count > MAX_ATTEMPTS)
RecordFailureMap_OffByOne(att, id, t) ==
    IF ~HasRecord(att, id)
    THEN MapSet(att, id, FreshRecord(t))
    ELSE LET record == att[id]
             timeElapsed == t - record.firstAttempt
         IN  IF record.blocked
             THEN IF timeElapsed > BLOCK_DURATION_MS
                  THEN MapDelete(att, id)
                  ELSE att
             ELSE IF timeElapsed > WINDOW_MS
                  THEN MapSet(att, id, FreshRecord(t))
                  ELSE IF record.count + 1 > MAX_ATTEMPTS
                       THEN MapSet(att, id, [count |-> record.count + 1,
                                             firstAttempt |-> t,
                                             blocked |-> TRUE])
                       ELSE MapSet(att, id, [record EXCEPT !.count = @ + 1])

\* recordFailure that does not restart the timer when it blocks
RecordFailureMap_NoTimerReset(att, id, t) ==
    IF ~HasRecord(att, id)
    THEN MapSet(att, id, FreshRecord(t))
    ELSE LET record == att[id]
             timeElapsed == t - record.firstAttempt
         IN  IF record.blocked
             THEN IF timeElapsed > BLOCK_DURATION_MS
                  THEN MapDelete(att, id)
                  ELSE att
             ELSE IF timeElapsed > WINDOW_MS
                  THEN MapSet(att, id, FreshRecord(t))
                  ELSE IF record.count + 1 >= MAX_ATTEMPTS
                       THEN MapSet(att, id, [count |-> record.count + 1,
                                             firstAttempt |-> record.firstAttempt,
                                             blocked |-> TRUE])
                       ELSE MapSet(att, id, [record EXCEPT !.count = @ + 1])

\* recordFailure that never resets the window
RecordFailureMap_NoWindowReset(att, id, t) ==
    IF ~HasRecord(att, id)
    THEN MapSet(att, id, FreshRecord(t))
    ELSE LET record == att[id]
             timeElapsed == t - record.firstAttempt
         IN  IF record.blocked
             THEN IF timeElapsed > BLOCK_DURATION_MS
                  THEN MapDelete(att, id)
                  ELSE att
             ELSE IF record.count + 1 >= MAX_ATTEMPTS
                  THEN MapSet(att, id, [count |-> record.count + 1,
                                        firstAttempt |-> t,
                                        blocked |-> TRUE])
                  ELSE MapSet(att, id, [record EXCEPT !.count = @ + 1])

\* recordFailure that counts the failure that finds an expired block
RecordFailureMap_CountsExpired(att, id, t) ==
    IF ~HasRecord(att, id)
    THEN MapSet(att, id, FreshRecord(t))
    ELSE LET record == att[id]
             timeElapsed == t - record.firstAttempt
         IN  IF record.blocked
             THEN IF timeElapsed > BLOCK_DURATION_MS
                  THEN MapSet(att, id, FreshRecord(t))
                  ELSE att
             ELSE IF timeElapsed > WINDOW_MS
                  THEN MapSet(att, id, FreshRecord(t))
                  ELSE IF record.count + 1 >= MAX_ATTEMPTS
                       THEN MapSet(att, id, [count |-> record.count + 1,
                                             firstAttempt |-> t,
                                             blocked |-> TRUE])
                       ELSE MapSet(att, id, [record EXCEPT !.count = @ + 1])

\* recordFailure that goes on counting on a blocked record
RecordFailureMap_CountsWhileBlocked(att, id, t) ==
    IF ~HasRecord(att, id)
    THEN MapSet(att, id, FreshRecord(t))
    ELSE LET record == att[id]
             timeElapsed == t - record.firstAttempt
         IN  IF record.blocked
             THEN IF timeElapsed > BLOCK_DURATION_MS
                  THEN MapDelete(att, id)
                  ELSE MapSet(att, id, [record EXCEPT !.count = @ + 1])
             ELSE IF timeElapsed > WINDOW_MS
                  THEN MapSet(att, id, FreshRecord(t))
                  ELSE IF record.count + 1 >= MAX_ATTEMPTS
                       THEN MapSet(att, id, [count |-> record.count + 1,
                                             firstAttempt |-> t,
                                             blocked |-> TRUE])
                       ELSE MapSet(att, id, [record EXCEPT !.count = @ + 1])

\* recordFailure that restarts the timer of a block it finds
RecordFailureMap_ExtendsBlock(att, id, t) ==
    IF ~HasRecord(att, id)
    THEN MapSet(att, id, FreshRecord(t))
    ELSE LET record == att[id]
             timeElapsed == t - record.firstAttempt
         IN  IF record.blocked
             THEN IF timeElapsed > BLOCK_DURATION_MS
                  THEN MapDelete(att, id)
                  ELSE MapSet(att, id, [record EXCEPT !.firstAttempt = t])
             ELSE IF timeElapsed > WINDOW_MS
                  THEN MapSet(att, id, FreshRecord(t))
                  ELSE IF record.count + 1 >= MAX_ATTEMPTS
                       THEN MapSet(att, id, [count |-> record.count + 1,
                                             firstAttempt |-> t,
                                             blocked |-> TRUE])
                       ELSE MapSet(att, id, [record EXCEPT !.count = @ + 1])

\* recordFailure: the map after the call at time t
RecordFailureMap(att, id, t) ==
    IF ~HasRecord(att, id)
    THEN MapSet(att, id, FreshRecord(t))
    ELSE LET record == att[id]
             timeElapsed == t - record.firstAttempt
         IN  IF record.blocked
             THEN IF timeElapsed > BLOCK_DURATION_MS
                  THEN MapDelete(att, id)
                  ELSE att
             ELSE IF timeElapsed > WINDOW_MS
                  THEN MapSet(att, id, FreshRecord(t))
                  ELSE IF record.count + 1 >= MAX_ATTEMPTS
                       THEN MapSet(att, id, [count |-> record.count + 1,
                                             firstAttempt |-> t,
                                             blocked |-> TRUE])
                       ELSE MapSet(att, id, [record EXCEPT !.count = @ + 1])

\* a recordFailure that returns true only for the call that engages the block
RecordFailureRet_TransitionOnly(att, id, t) ==
    IF ~HasRecord(att, id)
    THEN FALSE
    ELSE LET record == att[id]
             timeElapsed == t - record.firstAttempt
         IN  IF record.blocked
             THEN FALSE
             ELSE IF timeElapsed > WINDOW_MS
                  THEN FALSE
                  ELSE record.count + 1 >= MAX_ATTEMPTS

\* recordFailure: the value the call at time t returns
RecordFailureRet(att, id, t) ==
    IF ~HasRecord(att, id)
    THEN FALSE
    ELSE LET record == att[id]
             timeElapsed == t - record.firstAttempt
         IN  IF record.blocked
             THEN ~(timeElapsed > BLOCK_DURATION_MS)
             ELSE IF timeElapsed > WINDOW_MS
                  THEN FALSE
                  ELSE record.count + 1 >= MAX_ATTEMPTS

\* recordSuccess that resets the count and keeps the record
RecordSuccessMap_ResetOnly(att, id) ==
    IF HasRecord(att, id) THEN MapSet(att, id, [att[id] EXCEPT !.count = 1]) ELSE att

\* recordSuccess
RecordSuccessMap(att, id) == MapDelete(att, id)

\* isBlocked that lets the block end at the boundary (>= for >)
IsBlockedRet_ExpiresAtBoundary(att, id, t) ==
    IF ~HasRecord(att, id) \/ ~att[id].blocked
    THEN FALSE
    ELSE ~(t - att[id].firstAttempt >= BLOCK_DURATION_MS)

\* isBlocked: the value returned at time t
IsBlockedRet(att, id, t) ==
    IF ~HasRecord(att, id) \/ ~att[id].blocked
    THEN FALSE
    ELSE ~(t - att[id].firstAttempt > BLOCK_DURATION_MS)

\* isBlocked: the map after the call at time t
IsBlockedMap(att, id, t) ==
    IF ~HasRecord(att, id) \/ ~att[id].blocked
    THEN att
    ELSE IF t - att[id].firstAttempt > BLOCK_DURATION_MS
         THEN MapDelete(att, id)
         ELSE att

\* Math.ceil(a / b) for b > 0
Ceil(a, b) == -((-a) \div b)

\* getBlockTimeRemaining
GetBlockTimeRemaining(att, id, t) ==
    IF ~HasRecord(att, id) \/ ~att[id].blocked
    THEN 0
    ELSE Ceil(BLOCK_DURATION_MS - (t - att[id].firstAttempt), MINUTE_MS)

----------------------------------------------------------------------------
(* History kept beside the tracker *)

\* no time recorded
NoTime == 0 - 1

\* the count a call on id finds (0: no record)
PreCount(id) == IF HasRecord(attempts, id) THEN attempts[id].count ELSE 0

CallsAfter(op, id, ret) ==
    LET c == [op |-> op, id |-> id, ret |-> ret, pre |-> PreCount(id)]
    IN  IF Len(calls) < 2 THEN Append(calls, c)
                                  ELSE Append(Tail(calls), c)

NoCall == [op |-> "none", id |-> <<"", "">>, ret |-> FALSE, pre |-> 0]

LastCall == IF Len(calls) = 0 THEN NoCall ELSE calls[Len(calls)]

PrevCall == IF Len(calls) < 2 THEN NoCall ELSE calls[Len(calls) - 1]

\* the failure times of id since its record was last absent
TrailAfter(att2, id, t) ==
    IF HasRecord(att2, id) THEN [trail EXCEPT ![id] = Append(@, t)]
                           ELSE [trail EXCEPT ![id] = <<>>]

TrailKeep(att2, id) ==
    IF HasRecord(att2, id) THEN trail ELSE [trail EXCEPT ![id] = <<>>]

BlockedAtAfterFailure(att2, id, t) ==
    IF ~HasRecord(att2, id)
    THEN [blockedAt EXCEPT ![id] = NoTime]
    ELSE IF RecordFailureRet(attempts, id, t)
            /\ ~(HasRecord(attempts, id) /\ attempts[id].blocked)
         THEN [blockedAt EXCEPT ![id] = t]
         ELSE blockedAt

BlockedAtKeep(att2, id) ==
    IF HasRecord(att2, id) THEN blockedAt ELSE [blockedAt EXCEPT ![id] = NoTime]


----------------------------------------------------------------------------
(* The clock *)

Instants == {k * WINDOW_MS + o : k \in 0 .. MaxWindows, o \in 0 .. MaxOffset}

Advance ==
    /\ \E t \in Instants : t > now /\ now' = t
    /\ UNCHANGED <<attempts, trail, calls, blockedAt, reqs, resp, overlapped, secret, held, authVars, sessionVars>>

----------------------------------------------------------------------------
(* The tracker called directly, as its unit tests call it *)

CallRecordFailure(id) ==
    /\ Len(trail[id]) < MaxTrail
    /\ attempts' = RecordFailureMap(attempts, id, now)
    /\ trail' = TrailAfter(attempts', id, now)
    /\ blockedAt' = BlockedAtAfterFailure(attempts', id, now)
    /\ calls' = CallsAfter("recordFailure", id, RecordFailureRet(attempts, id, now))
    /\ UNCHANGED <<now, reqs, resp, overlapped, secret, held, authVars, sessionVars>>

CallRecordSuccess(id) ==
    /\ attempts' = RecordSuccessMap(attempts, id)
    /\ trail' = [trail EXCEPT ![id] = <<>>]
    /\ blockedAt' = [blockedAt EXCEPT ![id] = NoTime]
    /\ calls' = CallsAfter("recordSuccess", id, FALSE)
    /\ UNCHANGED <<now, reqs, resp, overlapped, secret, held, authVars, sessionVars>>

CallIsBlocked(id) ==
    /\ attempts' = IsBlockedMap(attempts, id, now)
    /\ trail' = TrailKeep(attempts', id)
    /\ calls' = CallsAfter("isBlocked", id, IsBlockedRet(attempts, id, now))
    /\ blockedAt' = BlockedAtKeep(attempts', id)
    /\ UNCHANGED <<now, reqs, resp, overlapped, secret, held, authVars, sessionVars>>

\* the empty string where a token is expected; no response yet
NoToken == [payload |-> <<>>, iat |-> 0, exp |-> NoTime, sig |-> "none"]

NoResponse == [status |-> 0, error |-> "", minutes |-> 0, token |-> NoToken,
               password |-> ""]

\* no identity attached to the request
NoUser == <<>>

NoAuth == [scheme |-> "", token |-> NoToken, turn |-> FALSE, revoked |-> FALSE,
           rows |-> <<>>, status |-> 0, error |-> "", next |-> FALSE, user |-> NoUser]

NoLogout == [status |-> 0, message |-> ""]

NoAdmin == [user |-> NoUser, status |-> 0, error |-> "", next |-> FALSE]

\* the row of the users table the seed creates
UserRow == [id |-> 1, email |-> "a@x.com", username |-> "admin", role |-> "admin",
            password |-> "right"]

\* the same account after its username was changed
RenamedRow == [UserRow EXCEPT !.username = "mayor"]

Rows == {UserRow, RenamedRow}

\* no row read yet
NoRow == [id |-> 0, email |-> "", username |-> "", role |-> "", password |-> ""]

\* the process once the modules are loaded: tokenBlacklist constructed, its
\* interval set, no signal received
Started == [phase |-> "running", since |-> NoTime, timer |-> TRUE]

\* the cleanup interval: 60 * 60 * 1000
SWEEP_MS == 60 * 60 * 1000

TrackerIds == {Identifier("a@x.com", "10.0.0.1")}

InitCommon ==
    /\ now = 0
    /\ attempts = <<>>
    /\ trail = [id \in Identifiers |-> <<>>]
    /\ blockedAt = [id \in Identifiers |-> NoTime]
    /\ calls = <<>>
    /\ reqs = <<>>
    /\ resp = NoResponse
    /\ overlapped = FALSE
    /\ held = {}
    /\ blacklist = <<>>
    /\ sweepDue = SWEEP_MS
    /\ authResp = NoAuth
    /\ outResp = NoLogout
    /\ loggedOut = {}
    /\ adminResp = NoAdmin
    /\ proc = Started
    /\ users = <<UserRow>>
    /\ issued = {}

TrackerNext ==
    \/ Advance
    \/ \E id \in TrackerIds : CallRecordFailure(id)
    \/ \E id \in TrackerIds : CallRecordSuccess(id)
    \/ \E id \in TrackerIds : CallIsBlocked(id)

\* the server started with JWT_SECRET set
InitConfigured == InitCommon /\ secret = TRUE

SpecTracker == InitConfigured /\ [][TrackerNext]_vars

----------------------------------------------------------------------------
(* The account store and the token codec, as login uses them *)

\* SELECT * FROM users WHERE LOWER(email) = LOWER($1)
QueryUsers(email) ==
    SelectSeq(users, LAMBDA row : toLowerCase(row.email) = toLowerCase(email))

\* bcrypt.compare(password, user.password)
BcryptCompare(password, hash) == password = hash

\* expiresIn: "24h", in seconds
EXPIRES_IN_S == 24 * 60 * 60

\* Math.floor(Date.now() / 1000)
ClockTimestamp(t) == t \div 1000

\* jwt.sign(payload, secret, {expiresIn: "24h"}) at time t
JwtSign(payload, t) ==
    [payload |-> payload, iat |-> ClockTimestamp(t),
     exp |-> ClockTimestamp(t) + EXPIRES_IN_S, sig |-> "server"]

----------------------------------------------------------------------------
(* login *)

LoginEmails == {"A@x.com", "b@x.com"}
LoginPasswords == {"right", "wrong", ""}
LoginIps == {"10.0.0.1"}

BagAdd(b, e) ==
    [x \in DOMAIN b \cup {e} |-> IF x = e THEN (IF e \in DOMAIN b THEN b[e] + 1 ELSE 1)
                                         ELSE b[x]]

BagRemove(b, e) ==
    IF b[e] = 1 THEN [x \in DOMAIN b \ {e} |-> b[x]]
                ELSE [b EXCEPT ![e] = @ - 1]

RECURSIVE SumOver(_, _)
SumOver(f, S) ==
    IF S = {} THEN 0
    ELSE LET x == CHOOSE y \in S : TRUE IN f[x] + SumOver(f, S \ {x})

BagSize(b) == SumOver(b, DOMAIN b)

Response(r, status, error, minutes, token) ==
    [status |-> status, error |-> error, minutes |-> minutes, token |-> token,
     password |-> r.password]

\* requests the model still follows: those in flight and the failures on record
Load == BagSize(reqs) + SumOver([id \in Identifiers |-> Len(trail[id])], Identifiers)

\* login up to its first await: input validation and the block check
LoginStart(email, password, ip, cap) ==
    LET r == [email |-> email, password |-> password, ip |-> ip, stage |-> "query",
              user |-> NoRow]
        identifier == Identifier(email, ip)
    IN  IF email = "" \/ password = ""
        THEN /\ resp' = Response(r, 400, "Email and password are required", 0, NoToken)
             /\ UNCHANGED <<now, attempts, trail, calls, blockedAt, reqs, overlapped,
                            secret, held, authVars, sessionVars>>
        ELSE IF IsBlockedRet(attempts, identifier, now)
        THEN /\ attempts' = IsBlockedMap(attempts, identifier, now)
             /\ resp' = Response(r, 429, "Too many failed login attempts",
                                 GetBlockTimeRemaining(attempts', identifier, now),
                                 NoToken)
             /\ UNCHANGED <<now, trail, calls, blockedAt, reqs, overlapped, secret, held, authVars, sessionVars>>
        ELSE /\ Load < cap
             /\ attempts' = IsBlockedMap(attempts, identifier, now)
             /\ trail' = TrailKeep(attempts', identifier)
             /\ blockedAt' = BlockedAtKeep(attempts', identifier)
             /\ reqs' = BagAdd(reqs, r)
             /\ overlapped' = (overlapped \/ BagSize(reqs) > 0)
             /\ UNCHANGED <<now, calls, resp, secret, held, authVars, sessionVars>>

\* what login does when it records a failure and answers 401
LoginFail_UnknownSilent(r) ==
    LET identifier == Identifier(r.email, r.ip)
    IN  IF Len(QueryUsers(r.email)) = 0
        THEN /\ UNCHANGED <<attempts, trail, blockedAt>>
             /\ resp' = Response(r, 401, "Invalid credentials", 0, NoToken)
        ELSE /\ attempts' = RecordFailureMap(attempts, identifier, now)
             /\ trail' = TrailAfter(attempts', identifier, now)
             /\ blockedAt' = BlockedAtAfterFailure(attempts', identifier, now)
             /\ resp' = Response(r, 401, "Invalid credentials", 0, NoToken)

LoginFail(r) ==
    LET identifier == Identifier(r.email, r.ip)
    IN  /\ attempts' = RecordFailureMap(attempts, identifier, now)
        /\ trail' = TrailAfter(attempts', identifier, now)
        /\ blockedAt' = BlockedAtAfterFailure(attempts', identifier, now)
        /\ resp' = Response(r, 401, "Invalid credentials", 0, NoToken)

\* login resumed after the account query
LoginQuery(r) ==
    /\ r \in DOMAIN reqs /\ r.stage = "query"
    /\ IF Len(QueryUsers(r.email)) = 0
       THEN /\ LoginFail(r)
            /\ reqs' = BagRemove(reqs, r)
       ELSE /\ reqs' = BagAdd(BagRemove(reqs, r),
                              [r EXCEPT !.stage = "compare",
                                        !.user = QueryUsers(r.email)[1]])
            /\ UNCHANGED <<attempts, trail, blockedAt, resp>>
    /\ UNCHANGED <<now, calls, overlapped, secret, held, authVars, sessionVars>>

\* login resumed after the password comparison
LoginResume(r) ==
    LET identifier == Identifier(r.email, r.ip)
        user == r.user
        payload == [id |-> user.id, email |-> user.email,
                    username |-> user.username, role |-> user.role]
    IN  /\ r \in DOMAIN reqs /\ r.stage = "compare"
        /\ reqs' = BagRemove(reqs, r)
        /\ IF ~BcryptCompare(r.password, user.password)
           THEN LoginFail(r)
           ELSE /\ attempts' = RecordSuccessMap(attempts, identifier)
                /\ trail' = [trail EXCEPT ![identifier] = <<>>]
                /\ blockedAt' = [blockedAt EXCEPT ![identifier] = NoTime]
                /\ IF ~secret
                   THEN resp' = Response(r, 500, "Internal server error", 0, NoToken)
                   ELSE resp' = Response(r, 200, "", 0, JwtSign(payload, now))
        /\ UNCHANGED <<now, calls, overlapped, secret, held, authVars, users>>

LoginCompare(r) == LoginResume(r) /\ UNCHANGED issued

\* the same, the token it returns put on record
LoginIssue(r) ==
    /\ LoginResume(r)
    /\ issued' = IF resp'.status = 200
                 THEN issued \cup {[token |-> resp'.token, at |-> now, user |-> r.user]}
                 ELSE issued

LoginInstants ==
    {k * BLOCK_DURATION_MS + o : k \in 0 .. MaxBlocks, o \in {0, 1}}

LoginAdvance ==
    /\ \E t \in LoginInstants : t > now /\ now' = t
    /\ UNCHANGED <<attempts, trail, calls, blockedAt, reqs, resp, overlapped, secret, held, authVars, sessionVars>>

LoginRequests ==
    {[email |-> e, password |-> p, ip |-> i, stage |-> "query", user |-> NoRow] :
        e \in LoginEmails, p \in LoginPasswords, i \in LoginIps}
        \cup {[email |-> e, password |-> p, ip |-> i, stage |-> "compare", user |-> u] :
                 e \in LoginEmails, p \in LoginPasswords, i \in LoginIps, u \in Rows}

\* the server started with or without JWT_SECRET in its environment
InitAnyEnv == InitCommon /\ secret \in BOOLEAN

LoginNext ==
    \/ LoginAdvance
    \/ \E e \in LoginEmails, p \in LoginPasswords, i \in LoginIps :
          LoginStart(e, p, i, MaxLoad)
    \/ \E r \in LoginRequests : LoginQuery(r)
    \/ \E r \in LoginRequests : LoginCompare(r)

\* login requests for every e-mail, few at a time
SpecLogin == InitConfigured /\ [][LoginNext]_vars

RaceNext ==
    \/ LoginAdvance
    \/ \E p \in {"right", "wrong"}, i \in LoginIps : LoginStart("A@x.com", p, i, MaxRequests)
    \/ \E r \in LoginRequests : LoginQuery(r)
    \/ \E r \in LoginRequests : LoginCompare(r)

\* login requests for one account, many at a time
SpecRace == InitAnyEnv /\ [][RaceNext]_vars

----------------------------------------------------------------------------
(* The token blacklist *)

\* blacklistToken(token, expiresAt)
BlacklistToken_Toggle(bl, token, expiresAt) ==
    IF token \in DOMAIN bl THEN MapDelete(bl, token) ELSE MapSet(bl, token, expiresAt)

BlacklistToken(bl, token, expiresAt) == MapSet(bl, token, expiresAt)

\* what isBlacklisted(token) returns at time t: a missing entry and an entry of
\* 0 are both falsy
IsBlacklistedRet_Never(bl, token, t) == FALSE

IsBlacklistedRet(bl, token, t) ==
    IF token \notin DOMAIN bl \/ bl[token] = 0 THEN FALSE
    ELSE IF t > bl[token] THEN FALSE
    ELSE TRUE

\* the blacklist after isBlacklisted(token) at time t
IsBlacklistedMap_Keep(bl, token, t) == bl

IsBlacklistedMap(bl, token, t) ==
    IF token \notin DOMAIN bl \/ bl[token] = 0 THEN bl
    ELSE IF t > bl[token] THEN MapDelete(bl, token)
    ELSE bl

\* the blacklist after cleanup() at time t
CleanupMap_Inclusive(bl, t) == [k \in {x \in DOMAIN bl : ~(t >= bl[x])} |-> bl[k]]

CleanupMap(bl, t) == [k \in {x \in DOMAIN bl : ~(t > bl[x])} |-> bl[k]]

\* the interval's callback, every SWEEP_MS from construction on, when it is
\* due at the present instant
Cleanup ==
    /\ proc.timer
    /\ now >= sweepDue
    /\ blacklist' = CleanupMap(blacklist, now)
    /\ sweepDue' = sweepDue + SWEEP_MS
    /\ UNCHANGED <<now, attempts, trail, calls, blockedAt, reqs, resp, overlapped,
                   secret, held, authResp, outResp, loggedOut, adminResp, proc, sessionVars>>

\* clearAll()
ClearAll ==
    /\ blacklist' = <<>>
    /\ loggedOut' = {}
    /\ UNCHANGED <<now, attempts, trail, calls, blockedAt, reqs, resp, overlapped,
                   secret, held, sweepDue, authResp, outResp, adminResp, proc, sessionVars>>

----------------------------------------------------------------------------
(* Tokens and headers *)

\* a token has an exp claim
HasExp(token) == token.exp # NoTime

\* a token nobody signed with the server's secret, due long after the others
ForgedToken ==
    [payload |-> [id |-> 1, email |-> "a@x.com", username |-> "admin", role |-> "admin"],
     iat |-> 0, exp |-> 3 * EXPIRES_IN_S, sig |-> "forged"]

\* a token signed with the server's secret that has no exp claim and whose
\* payload has an empty username
IncompleteToken ==
    [payload |-> [id |-> 1, email |-> "a@x.com", username |-> "", role |-> "admin"],
     iat |-> 0, exp |-> NoTime, sig |-> "server"]

\* tokens that login did not issue
ForeignTokens == {NoToken, ForgedToken, IncompleteToken}

\* jwt.decode(token): null for a string that is no JWT, the claims otherwise,
\* whoever signed them
JwtDecodes(token) == token.sig # "none"

\* jwt.verify that lets a token live through the second of its exp claim
JwtVerify_ThroughExp(token, t) ==
    IF token.sig = "none" THEN "jwt malformed"
    ELSE IF token.sig # "server" THEN "invalid signature"
    ELSE IF HasExp(token) /\ ClockTimestamp(t) > token.exp THEN "jwt expired"
    ELSE "ok"

\* jwt.verify(token, secret) at time t: what it throws, or "ok"
JwtVerify(token, t) ==
    IF token.sig = "none" THEN "jwt malformed"
    ELSE IF token.sig # "server" THEN "invalid signature"
    ELSE IF HasExp(token) /\ ClockTimestamp(t) >= token.exp THEN "jwt expired"
    ELSE "ok"

\* authenticate's check of the decoded payload
PayloadValid_IdOnly(payload) == payload.id # 0

PayloadValid(payload) == payload.id # 0 /\ payload.email # "" /\ payload.username # ""

\* an identity read from the users table by the id of the token
RequestUser_FromStore(payload) ==
    LET rows == SelectSeq(users, LAMBDA row : row.id = payload.id)
    IN  IF Len(rows) = 0 THEN NoUser
        ELSE [id |-> rows[1].id, email |-> rows[1].email, username |-> rows[1].username,
              role |-> rows[1].role, password |-> ""]

\* the identity authenticate attaches to the request (its timestamps left out)
RequestUser(payload) ==
    [id |-> payload.id, email |-> payload.email, username |-> payload.username,
     role |-> payload.role, password |-> ""]

\* Authorization headers: none, another scheme, or "Bearer " and a token
Headers ==
    {[scheme |-> sc, token |-> NoToken] : sc \in {"", "Basic"}}
        \cup {[scheme |-> "Bearer", token |-> tk] : tk \in held \cup ForeignTokens}

\* authHeader && authHeader.startsWith("Bearer ")
IsBearer(h) == h.scheme = "Bearer"

----------------------------------------------------------------------------
(* authenticate and logout *)

AuthOutcome(h, status, error, next, user) ==
    [scheme |-> h.scheme, token |-> h.token, turn |-> ~authResp.turn,
     revoked |-> h.token \in loggedOut, rows |-> users,
     status |-> status, error |-> error, next |-> next, user |-> user]

\* authenticate(req, res, next) for a request with header h
Authenticate(h) ==
    /\ IF ~IsBearer(h)
       THEN /\ authResp' = AuthOutcome(h, 401, "Invalid or missing authorization header",
                                       FALSE, NoUser)
            /\ UNCHANGED blacklist
       ELSE /\ blacklist' = IsBlacklistedMap(blacklist, h.token, now)
            /\ IF IsBlacklistedRet(blacklist, h.token, now)
               THEN authResp' = AuthOutcome(h, 401,
                                    "Token has been invalidated. Please login again.",
                                    FALSE, NoUser)
               ELSE IF ~secret
               THEN authResp' = AuthOutcome(h, 500, "Authentication failed", FALSE, NoUser)
               ELSE IF JwtVerify(h.token, now) # "ok"
               THEN authResp' = AuthOutcome(h, 401, "Invalid or expired token", FALSE, NoUser)
               ELSE IF ~PayloadValid(h.token.payload)
               THEN authResp' = AuthOutcome(h, 401, "Invalid token payload", FALSE, NoUser)
               ELSE authResp' = AuthOutcome(h, 0, "", TRUE, RequestUser(h.token.payload))
    /\ UNCHANGED <<now, attempts, trail, calls, blockedAt, reqs, resp, overlapped,
                   secret, held, sweepDue, outResp, loggedOut, adminResp, proc, sessionVars>>

\* decoded.exp * 1000: seconds to milliseconds
LogoutExpiresAt_Seconds(exp) == exp

LogoutExpiresAt(exp) == exp * 1000

\* a logout that stores an entry for every token that decodes
LogoutMap_AnyDecoded(bl, h) ==
    IF IsBearer(h) /\ JwtDecodes(h.token)
    THEN BlacklistToken(bl, h.token, LogoutExpiresAt(h.token.exp))
    ELSE bl

\* the blacklist after logout for a request with header h
LogoutMap(bl, h) ==
    IF IsBearer(h) /\ JwtDecodes(h.token) /\ HasExp(h.token) /\ h.token.exp # 0
    THEN BlacklistToken(bl, h.token, LogoutExpiresAt(h.token.exp))
    ELSE bl

\* logout(req, res) for a request with header h
Logout(h) ==
    /\ blacklist' = LogoutMap(blacklist, h)
    /\ outResp' = [status |-> 200, message |-> "Logged out successfully"]
    /\ loggedOut' = IF IsBearer(h) /\ h.token \in held THEN loggedOut \cup {h.token}
                    ELSE loggedOut
    /\ UNCHANGED <<now, attempts, trail, calls, blockedAt, reqs, resp, overlapped,
                   secret, held, sweepDue, authResp, adminResp, proc, sessionVars>>

\* the client stores the token of its last successful login over the one it had
ClientKeep ==
    /\ resp.status = 200
    /\ held # {resp.token}
    /\ held' = {resp.token}
    /\ UNCHANGED <<now, attempts, trail, calls, blockedAt, reqs, resp, overlapped,
                   secret, authVars, sessionVars>>

\* the clock of the token's life: from the start and from the first expiry on,
\* the sweeps, and 1 ms around each second in which a login is followed
AuthInstants ==
    {d * EXPIRES_IN_S * 1000 + h * SWEEP_MS : d \in {0, 1}, h \in 0 .. MaxSweeps}
        \cup {d * EXPIRES_IN_S * 1000 + sec * 1000 + o :
                 d \in {0, 1}, sec \in 0 .. MaxIssue, o \in {-1, 0, 1}}

\* the last time before t at which the interval fires
LastSweepBefore(t) == sweepDue + ((t - 1 - sweepDue) \div SWEEP_MS) * SWEEP_MS

\* time passes to t, and the interval's callbacks due before t run on the way
PassTo(t) ==
    /\ t > now
    /\ now' = t
    /\ IF proc.timer /\ sweepDue < t
       THEN /\ blacklist' = CleanupMap(blacklist, LastSweepBefore(t))
            /\ sweepDue' = LastSweepBefore(t) + SWEEP_MS
       ELSE UNCHANGED <<blacklist, sweepDue>>
    /\ UNCHANGED <<attempts, trail, calls, blockedAt, reqs, resp, overlapped, secret,
                   held, authResp, outResp, loggedOut, adminResp, proc, sessionVars>>

AuthAdvance == \E t \in AuthInstants : PassTo(t)

AuthNext ==
    \/ AuthAdvance
    \/ Cleanup
    \/ ClearAll
    \/ /\ ClockTimestamp(now) <= MaxIssue
       /\ \E i \in LoginIps : LoginStart("A@x.com", "right", i, 1)
    \/ \E r \in LoginRequests : LoginQuery(r)
    \/ \E r \in LoginRequests : LoginCompare(r)
    \/ ClientKeep
    \/ \E h \in Headers : Authenticate(h)
    \/ \E h \in Headers : Logout(h)

\* logins, then requests that present the tokens; the sweep runs every hour
SpecAuth == InitAnyEnv /\ [][AuthNext]_vars

----------------------------------------------------------------------------
(* The blacklist called directly, and by logout *)

\* a forged token that expired one second after the epoch
StaleToken == [ForgedToken EXCEPT !.exp = 1]

BlTokens == {ForgedToken, StaleToken}

\* expiry times handed to blacklistToken: a second and a cleanup interval
\* after the start (logout never hands it 0)
BlExpiries == {1000, SWEEP_MS}

BlHeaders == {[scheme |-> "Bearer", token |-> tk] : tk \in BlTokens}

\* history: the last two calls, with whether the token had an entry before
BlCallsAfter(op, tk, e, ret) ==
    LET c == [op |-> op, id |-> tk, ret |-> ret,
              pre |-> IF tk \in DOMAIN blacklist THEN blacklist[tk] ELSE NoTime,
              arg |-> e]
    IN  IF Len(calls) < 2 THEN Append(calls, c) ELSE <<calls[2], c>>

CallBlacklistToken(tk, e) ==
    /\ blacklist' = BlacklistToken(blacklist, tk, e)
    /\ calls' = BlCallsAfter("blacklistToken", tk, e, FALSE)
    /\ UNCHANGED <<now, attempts, trail, blockedAt, reqs, resp, overlapped, secret,
                   held, sweepDue, authResp, outResp, loggedOut, adminResp, proc, sessionVars>>

CallIsBlacklisted(tk) ==
    /\ blacklist' = IsBlacklistedMap(blacklist, tk, now)
    /\ calls' = BlCallsAfter("isBlacklisted", tk, NoTime, IsBlacklistedRet(blacklist, tk, now))
    /\ UNCHANGED <<now, attempts, trail, blockedAt, reqs, resp, overlapped, secret,
                   held, sweepDue, authResp, outResp, loggedOut, adminResp, proc, sessionVars>>

BlacklistNext ==
    \/ AuthAdvance
    \/ Cleanup
    \/ ClearAll
    \/ \E tk \in BlTokens, e \in BlExpiries : CallBlacklistToken(tk, e)
    \/ \E tk \in BlTokens : CallIsBlacklisted(tk)
    \/ \E h \in BlHeaders : Logout(h)

\* the blacklist under direct calls and logouts, the sweep running every hour
SpecBlacklist == InitConfigured /\ [][BlacklistNext]_vars

RetentionNext ==
    \/ AuthAdvance
    \/ Cleanup
    \/ \E tk \in BlTokens : CallIsBlacklisted(tk)
    \/ \E h \in BlHeaders : Logout(h)

\* logouts and blacklist checks only, the sweep running every hour
SpecRetention == InitConfigured /\ [][RetentionNext]_vars

----------------------------------------------------------------------------
(* requireAdmin, after authenticate *)

\* a token login issues at the start for the account
AdminToken ==
    JwtSign([id |-> UserRow.id, email |-> UserRow.email, username |-> UserRow.username,
             role |-> UserRow.role], 0)

\* a token signed for an account whose role is not admin
EditorToken ==
    JwtSign([id |-> 2, email |-> "e@x.com", username |-> "editor", role |-> "editor"], 0)

AdminHeaders ==
    {[scheme |-> "", token |-> NoToken]}
        \cup {[scheme |-> "Bearer", token |-> tk] : tk \in {AdminToken, EditorToken, ForgedToken}}

\* !(!req.user || req.user.role !== "admin")
IsAdmin_AnyUser(user) == user # NoUser

IsAdmin(user) == user # NoUser /\ user.role = "admin"

\* requireAdmin(req, res, next) for the request as authenticate left it
RequireAdmin ==
    /\ adminResp' = IF IsAdmin(authResp.user)
                    THEN [user |-> authResp.user, status |-> 0, error |-> "", next |-> TRUE]
                    ELSE [user |-> authResp.user, status |-> 403,
                          error |-> "Admin access required", next |-> FALSE]
    /\ UNCHANGED <<now, attempts, trail, calls, blockedAt, reqs, resp, overlapped, secret,
                   held, blacklist, sweepDue, authResp, outResp, loggedOut, proc, sessionVars>>

AdminNext ==
    \/ AuthAdvance
    \/ \E h \in AdminHeaders : Authenticate(h)
    \/ \E h \in AdminHeaders : Logout(h)
    \/ RequireAdmin

\* requests through authenticate and requireAdmin
SpecAdmin == InitConfigured /\ [][AdminNext]_vars

----------------------------------------------------------------------------
(* A session: login, then requests with the token, while the account changes *)

\* the row of the account is updated outside the handlers
AccountChange ==
    /\ \E row \in Rows : row # users[1] /\ users' = <<row>>
    /\ UNCHANGED <<now, attempts, trail, calls, blockedAt, reqs, resp, overlapped, secret,
                   held, authVars, issued>>

\* the requests of a client that keeps the token it was given
SessionHeaders ==
    {[scheme |-> "", token |-> NoToken]}
        \cup {[scheme |-> "Bearer", token |-> tk] : tk \in held}

\* the clock of a session: its first instants, where login signs, and the
\* instants around 24 hours later
SessionInstants ==
    {o : o \in 0 .. MaxOffset}
        \cup {EXPIRES_IN_S * 1000 + o : o \in (0 - 1) .. MaxOffset}

SessionAdvance == \E t \in SessionInstants : PassTo(t)

SessionNext ==
    \/ SessionAdvance
    \/ AccountChange
    \/ /\ ClockTimestamp(now) <= MaxIssue
       /\ Cardinality(issued) < MaxTokens
       /\ \E i \in LoginIps : LoginStart("A@x.com", "right", i, 1)
    \/ \E r \in LoginRequests : LoginQuery(r)
    \/ \E r \in LoginRequests : LoginIssue(r)
    \/ ClientKeep
    \/ \E h \in SessionHeaders : Authenticate(h)
    \/ \E h \in SessionHeaders : Logout(h)

\* logins whose tokens are followed from issuance to expiry
SpecSession == InitConfigured /\ [][SessionNext]_vars

----------------------------------------------------------------------------
(* logout for every kind of Authorization header, beside the tracker *)

LogoutHeaders ==
    {[scheme |-> sc, token |-> NoToken] : sc \in {"", "Basic"}}
        \cup {[scheme |-> "Bearer", token |-> tk] :
                 tk \in {NoToken, IncompleteToken, ForgedToken, StaleToken, AdminToken}}

LogoutNext ==
    \/ SessionAdvance
    \/ \E h \in LogoutHeaders : Logout(h)
    \/ \E id \in TrackerIds : CallRecordFailure(id)

\* logout requests while failures are on record and time passes
SpecLogout == InitConfigured /\ [][LogoutNext]_vars

----------------------------------------------------------------------------
(* The tracker called for several e-mail addresses and client addresses *)

\* the tracker's three operations for the identifier login builds from an
\* e-mail address and a client address
ScopedFailure(email, ip) ==
    /\ Load < MaxLoad
    /\ CallRecordFailure(Identifier(email, ip))

ScopedSuccess(email, ip) == CallRecordSuccess(Identifier(email, ip))

ScopedIsBlocked(email, ip) == CallIsBlocked(Identifier(email, ip))

\* one e-mail in two spellings from one address, the same e-mail from a second
\* address, and another e-mail from the first address
ScopePairs ==
    {<<"a@x.com", "10.0.0.1">>, <<"A@x.com", "10.0.0.1">>, <<"a@x.com", "10.0.0.2">>,
     <<"b@x.com", "10.0.0.1">>}

\* the start, and the first instant at which a block engaged at the start is over
ScopeInstants == {0, BLOCK_DURATION_MS + 1}

ScopeAdvance ==
    /\ \E t \in ScopeInstants : t > now /\ now' = t
    /\ UNCHANGED <<attempts, trail, calls, blockedAt, reqs, resp, overlapped, secret, held,
                   authVars, sessionVars>>

ScopeNext ==
    \/ ScopeAdvance
    \/ \E p \in ScopePairs : ScopedFailure(p[1], p[2])
    \/ \E p \in ScopePairs : ScopedSuccess(p[1], p[2])
    \/ \E p \in ScopePairs : ScopedIsBlocked(p[1], p[2])

\* tracker calls for every pair of e-mail and client address
SpecScope == InitConfigured /\ [][ScopeNext]_vars

----------------------------------------------------------------------------
(* logout and authenticate for tokens of any origin, the issued ones on record *)

RevokeNext ==
    \/ SessionAdvance
    \/ /\ ClockTimestamp(now) <= MaxIssue
       /\ Cardinality(issued) < MaxTokens
       /\ \E i \in LoginIps : LoginStart("A@x.com", "right", i, 1)
    \/ \E r \in LoginRequests : LoginQuery(r)
    \/ \E r \in LoginRequests : LoginIssue(r)
    \/ ClientKeep
    \/ \E h \in Headers : Authenticate(h)
    \/ \E h \in Headers : Logout(h)

\* logins, and requests that present the tokens they gave or tokens made elsewhere
SpecRevoke == InitConfigured /\ [][RevokeNext]_vars

----------------------------------------------------------------------------
(* The cleanup interval and the shutdown of the server *)

\* gracefulShutdown's setTimeout: the process exits 10 seconds after the signal
\* at the latest
FORCE_MS == 10000

\* destroy(): clearInterval(this.cleanupInterval)
Destroy ==
    /\ proc.phase # "exited"
    /\ proc' = [proc EXCEPT !.timer = FALSE]
    /\ UNCHANGED <<now, attempts, trail, calls, blockedAt, reqs, resp, overlapped, secret,
                   held, blacklist, sweepDue, authResp, outResp, loggedOut, adminResp,
                   sessionVars>>

\* gracefulShutdown(signal) on SIGTERM or SIGINT: server.close(...) and the
\* 10-second timeout
GracefulShutdown ==
    /\ proc.phase = "running"
    /\ proc' = [proc EXCEPT !.phase = "closing", !.since = now]
    /\ UNCHANGED <<now, attempts, trail, calls, blockedAt, reqs, resp, overlapped, secret,
                   held, blacklist, sweepDue, authResp, outResp, loggedOut, adminResp,
                   sessionVars>>

\* process.exit, from server.close's callback or from the timeout: the
\* process and every timer of it are gone
ProcessExit ==
    /\ proc.phase = "closing"
    /\ proc' = [proc EXCEPT !.phase = "exited", !.timer = FALSE]
    /\ UNCHANGED <<now, attempts, trail, calls, blockedAt, reqs, resp, overlapped, secret,
                   held, blacklist, sweepDue, authResp, outResp, loggedOut, adminResp,
                   sessionVars>>

\* the instants around each firing of the interval
ShutdownInstants ==
    {h * SWEEP_MS + o : h \in 0 .. MaxSweeps + 1, o \in {0 - 1, 0, 1}}

\* time passes; a closing process lasts no longer than the timeout allows
ShutdownAdvance ==
    \E t \in ShutdownInstants :
        /\ proc.phase = "closing" => t <= proc.since + FORCE_MS
        /\ PassTo(t)

\* a request still served: the server is running, or closing with the
\* request's connection open
ServedLogout(h) == proc.phase # "exited" /\ Logout(h)

ShutdownNext ==
    \/ ShutdownAdvance
    \/ Cleanup
    \/ Destroy
    \/ GracefulShutdown
    \/ ProcessExit
    \/ \E h \in BlHeaders : ServedLogout(h)

\* the process from start to exit, the interval firing every hour
SpecShutdown == InitConfigured /\ [][ShutdownNext]_vars

----------------------------------------------------------------------------
(* Properties of the tracker *)

\* C4: from no record, after 2 recordFailure calls inside the 15-minute window
\* isBlocked returns false; after the 3rd call inside the window (no recordSuccess
\* in between) isBlocked returns true.
C4_AttemptEscalation ==
    \A id \in TrackerIds :
        LET tr == trail[id]
        IN  /\ (Len(tr) = 2 /\ tr[2] - tr[1] <= WINDOW_MS)
                => /\ ~IsBlockedRet(attempts, id, now)
                   /\ (LastCall.op = "isBlocked" /\ LastCall.id = id) => ~LastCall.ret
            /\ (Len(tr) = 3 /\ tr[3] - tr[1] <= WINDOW_MS /\ now - tr[3] <= BLOCK_DURATION_MS)
                => /\ IsBlockedRet(attempts, id, now)
                   /\ (LastCall.op = "isBlocked" /\ LastCall.id = id) => LastCall.ret

C4_Witness ==
    \E id \in TrackerIds :
        /\ Len(trail[id]) = 3
        /\ trail[id][1] < trail[id][2] /\ trail[id][2] < trail[id][3]
        /\ trail[id][3] - trail[id][1] = WINDOW_MS
        /\ PrevCall.op = "recordFailure" /\ PrevCall.pre = 2
        /\ LastCall.op = "isBlocked" /\ LastCall.ret

\* C8: when the failure that triggers the block is recorded at T, isBlocked
\* returns true at every t with T <= t <= T + 60 minutes; at a call with
\* t > T + 60 minutes it returns false and deletes the record. The block is timed
\* from the blocking failure, not from the first failure of the window.
C8_BlockTiming ==
    \A id \in TrackerIds :
        blockedAt[id] # NoTime =>
            /\ now >= blockedAt[id]
            /\ (now <= blockedAt[id] + BLOCK_DURATION_MS)
                => /\ IsBlockedRet(attempts, id, now)
                   /\ IsBlockedMap(attempts, id, now) = attempts
            /\ (now > blockedAt[id] + BLOCK_DURATION_MS)
                => /\ ~IsBlockedRet(attempts, id, now)
                   /\ ~HasRecord(IsBlockedMap(attempts, id, now), id)
            /\ (LastCall.op = "isBlocked" /\ LastCall.id = id) => LastCall.ret

C8_Witness ==
    \E id \in TrackerIds :
        /\ blockedAt[id] # NoTime
        /\ trail[id][1] < blockedAt[id]
        /\ now > trail[id][1] + BLOCK_DURATION_MS
        /\ now = blockedAt[id] + BLOCK_DURATION_MS
        /\ LastCall.op = "isBlocked" /\ LastCall.ret

\* C9: for an unblocked record, a recordFailure arriving more than 15 minutes
\* after the record's first failure replaces the record by count = 1, window
\* start = now; so 2 failures and, more than 15 minutes after the first, a 3rd
\* leave count = 1 and isBlocked false.
C9_WindowResetStep ==
    \A id \in TrackerIds :
        (/\ HasRecord(attempts, id) /\ ~attempts[id].blocked
         /\ now - attempts[id].firstAttempt > WINDOW_MS
         /\ trail'[id] = Append(trail[id], now))
        => /\ HasRecord(attempts', id)
           /\ attempts'[id] = FreshRecord(now)

C9_WindowResetTrail ==
    \A id \in TrackerIds :
        LET tr == trail[id]
        IN  (Len(tr) = 3 /\ tr[2] - tr[1] <= WINDOW_MS /\ tr[3] - tr[1] > WINDOW_MS)
            => /\ HasRecord(attempts, id)
               /\ attempts[id] = FreshRecord(tr[3])
               /\ ~IsBlockedRet(attempts, id, now)

C9_WindowReset == [][C9_WindowResetStep]_vars /\ []C9_WindowResetTrail

C9_Witness ==
    \E id \in TrackerIds :
        /\ Len(trail[id]) = 3
        /\ trail[id][2] - trail[id][1] <= WINDOW_MS
        /\ trail[id][3] - trail[id][1] = WINDOW_MS + 1
        /\ LastCall.op = "recordFailure" /\ LastCall.pre = 2 /\ ~LastCall.ret
        /\ attempts[id].count = 1

\* C10: recordSuccess deletes the identifier's record whatever it holds; after 1
\* or 2 failures and a success isBlocked is false, and the next recordFailure
\* creates a fresh record with count = 1 and window start = now.
C10_AfterSuccess ==
    \A id \in TrackerIds :
        /\ (LastCall.op = "recordSuccess" /\ LastCall.id = id)
            => /\ ~HasRecord(attempts, id)
               /\ ~IsBlockedRet(attempts, id, now)
        /\ (/\ PrevCall.op = "recordSuccess" /\ PrevCall.id = id
            /\ LastCall.id = id)
            => /\ LastCall.op = "isBlocked" => (~LastCall.ret /\ ~HasRecord(attempts, id))
               /\ LastCall.op = "recordFailure"
                   => /\ ~LastCall.ret
                      /\ HasRecord(attempts, id)
                      /\ attempts[id].count = 1 /\ ~attempts[id].blocked
                      /\ attempts[id].firstAttempt = trail[id][1]
                      /\ Len(trail[id]) = 1

C10_Witness ==
    \E id \in TrackerIds :
        /\ PrevCall.op = "recordSuccess" /\ PrevCall.id = id /\ PrevCall.pre = 2
        /\ LastCall.op = "recordFailure" /\ LastCall.id = id
        /\ attempts[id] = FreshRecord(now)
        /\ now > 0

\* C11: whenever three failures are recorded for one identifier with no
\* success between them and the third is recorded no more than 15 minutes
\* after the first of those three, the identifier is blocked once the third is
\* recorded, also when an older failure had opened the record's window.
C11_SlidingEscalation ==
    \A id \in TrackerIds :
        LET tr == trail[id]
            n == Len(tr)
        IN  (/\ n >= 3
             /\ LastCall.op = "recordFailure" /\ LastCall.id = id
             /\ now = tr[n]
             /\ tr[n] - tr[n - 2] <= WINDOW_MS)
            => IsBlockedRet(attempts, id, now)

\* the records of the identifiers other than that of (email, ip) are as they were
OthersKept(email, ip) ==
    \A p \in ScopePairs :
        (p[1] \notin {"a@x.com", "A@x.com"} \/ email \notin {"a@x.com", "A@x.com"}
            \/ p[2] # ip) /\ (p[1] # email \/ p[2] # ip)
        => LET other == Identifier(p[1], p[2])
           IN  /\ HasRecord(attempts', other) <=> HasRecord(attempts, other)
               /\ HasRecord(attempts, other) => attempts'[other] = attempts[other]
               /\ IsBlockedRet(attempts', other, now) <=> IsBlockedRet(attempts, other, now)

\* a@x.com and A@x.com from one client address are counted on one record
CaseShared(ip) ==
    LET lower == <<"a@x.com", ip>>
    IN  /\ ScopedFailure("A@x.com", ip)
            => (/\ HasRecord(attempts', lower) = HasRecord(RecordFailureMap(attempts, lower, now), lower)
                /\ HasRecord(attempts', lower)
                      => attempts'[lower] = RecordFailureMap(attempts, lower, now)[lower])
        /\ ScopedIsBlocked("A@x.com", ip)
            => (IsBlockedRet(attempts, lower, now) <=> calls'[Len(calls')].ret)
        /\ ScopedSuccess("A@x.com", ip) => ~HasRecord(attempts', lower)

C24_ScopeStep ==
    /\ \A p \in ScopePairs :
          (\/ ScopedFailure(p[1], p[2])
           \/ ScopedSuccess(p[1], p[2])
           \/ ScopedIsBlocked(p[1], p[2])) => OthersKept(p[1], p[2])
    /\ CaseShared("10.0.0.1")

\* C24: recordFailure, recordSuccess and isBlocked on one identifier never
\* create, change or delete the record of a different identifier, so failures
\* for an email from one IP never block the same email from another IP nor
\* another email from the same IP; two emails that differ only in letter
\* case, from the same IP, share one record.
C24_ScopedBlocking == [][C24_ScopeStep]_vars

C24_Witness ==
    /\ IsBlockedRet(attempts, <<"a@x.com", "10.0.0.1">>, now)
    /\ HasRecord(attempts, <<"a@x.com", "10.0.0.2">>)
    /\ ~IsBlockedRet(attempts, <<"a@x.com", "10.0.0.2">>, now)
    /\ ~IsBlockedRet(attempts, <<"b@x.com", "10.0.0.1">>, now)
    /\ DOMAIN attempts = {<<"a@x.com", "10.0.0.1">>, <<"a@x.com", "10.0.0.2">>}
    /\ LastCall.op = "isBlocked" /\ LastCall.id = <<"b@x.com", "10.0.0.1">>

\* the identifier has a record and it is marked blocked
MarkedBlocked(att, id) == HasRecord(att, id) /\ att[id].blocked

C25_TransitionStep ==
    \A id \in TrackerIds :
        CallRecordFailure(id) =>
            (calls'[Len(calls')].ret
                <=> (~MarkedBlocked(attempts, id) /\ MarkedBlocked(attempts', id)))

\* C25: recordFailure returns true exactly when that call moved the
\* identifier's record into the Blocked state (the record was not blocked
\* before the call and is blocked after it), and false in every other case.
C25_ReturnsTransition == [][C25_TransitionStep]_vars

C25_BlockedAfterStep ==
    \A id \in TrackerIds :
        CallRecordFailure(id) =>
            /\ calls'[Len(calls')].ret <=> MarkedBlocked(attempts', id)
            /\ calls'[Len(calls')].ret <=> IsBlockedRet(attempts', id, now)

\* C25 (amended): recordFailure returns true exactly when the identifier is
\* blocked after the call, whether this call engaged the block or found a
\* block whose duration has not elapsed; it returns false in every other case.
C25_ReturnsBlockedAfter == [][C25_BlockedAfterStep]_vars

C25_Witness ==
    \E id \in TrackerIds :
        /\ LastCall.op = "recordFailure" /\ LastCall.id = id
        /\ LastCall.pre = MAX_ATTEMPTS /\ LastCall.ret
        /\ PrevCall.op = "recordFailure" /\ PrevCall.pre = MAX_ATTEMPTS - 1 /\ PrevCall.ret
        /\ MarkedBlocked(attempts, id)
        /\ now = attempts[id].firstAttempt + BLOCK_DURATION_MS

\* C27: in every reachable state of the attempt tracker each record has a
\* count between 1 and 3, an unblocked record has count 1 or 2, and a record
\* is blocked exactly when its count equals the threshold 3.
C27_RecordShape ==
    \A id \in DOMAIN attempts :
        /\ attempts[id].count \in 1 .. MAX_ATTEMPTS
        /\ attempts[id].blocked <=> attempts[id].count = MAX_ATTEMPTS
        /\ ~attempts[id].blocked => attempts[id].count \in 1 .. MAX_ATTEMPTS - 1

C27_Witness ==
    \E id \in DOMAIN attempts :
        /\ attempts[id].blocked /\ attempts[id].count = MAX_ATTEMPTS
        /\ LastCall.op = "recordFailure" /\ LastCall.id = id /\ LastCall.pre = MAX_ATTEMPTS
        /\ PrevCall.op = "isBlocked" /\ PrevCall.ret
        /\ now > attempts[id].firstAttempt + WINDOW_MS

C28_ExpiredStep ==
    \A id \in TrackerIds :
        (/\ MarkedBlocked(attempts, id)
         /\ now - attempts[id].firstAttempt > BLOCK_DURATION_MS
         /\ CallRecordFailure(id))
        => /\ ~HasRecord(attempts', id)
           /\ ~calls'[Len(calls')].ret

\* the call before the last found a blocked record and returned false, which
\* recordFailure does only when the block's duration has elapsed
C28_AfterExpired ==
    \A id \in TrackerIds :
        (/\ PrevCall.op = "recordFailure" /\ PrevCall.id = id
         /\ PrevCall.pre = MAX_ATTEMPTS /\ ~PrevCall.ret
         /\ LastCall.op = "recordFailure" /\ LastCall.id = id)
        => /\ LastCall.pre = 0 /\ ~LastCall.ret
           /\ HasRecord(attempts, id)
           /\ attempts[id].count = 1 /\ ~attempts[id].blocked
           /\ attempts[id].firstAttempt = trail[id][1] /\ Len(trail[id]) = 1

\* C28: when recordFailure is called for a record that is blocked and whose
\* block duration has elapsed (more than 60 minutes since the block started),
\* it deletes the record and returns false: the identifier becomes Clean and
\* that failure is not counted, so the following failure starts at count = 1.
C28_ExpiredBlockFailure == [][C28_ExpiredStep]_vars /\ []C28_AfterExpired

C28_Witness ==
    \E id \in TrackerIds :
        /\ PrevCall.op = "recordFailure" /\ PrevCall.id = id
        /\ PrevCall.pre = MAX_ATTEMPTS /\ ~PrevCall.ret
        /\ LastCall.op = "recordFailure" /\ LastCall.id = id /\ LastCall.pre = 0
        /\ attempts[id] = FreshRecord(now)

----------------------------------------------------------------------------
(* Properties of login *)

\* the identifier's block is engaged and its duration has not elapsed
BlockedNow(id) == blockedAt[id] # NoTime /\ now <= blockedAt[id] + BLOCK_DURATION_MS

InFlight(id) ==
    SumOver([r \in DOMAIN reqs |-> IF Identifier(r.email, r.ip) = id THEN reqs[r] ELSE 0],
            DOMAIN reqs)

\* C3: while an identifier is Blocked and the block duration has not elapsed,
\* every login request for it that presents a secret is answered 429, whatever
\* the secret; it does not reach the account lookup or the password comparison
\* and the attempt record is left unchanged.
C3_BlockedStep ==
    \A e \in LoginEmails, p \in LoginPasswords \ {""}, i \in LoginIps :
        BlockedNow(Identifier(e, i)) =>
            /\ LoginStart(e, p, i, MaxLoad)
                => /\ resp'.status = 429 /\ resp'.password = p
                   /\ attempts' = attempts
                   /\ reqs' = reqs
            /\ \A r \in LoginRequests :
                 (r.email = e /\ r.password = p /\ r.ip = i) => reqs' # BagAdd(reqs, r)

C3_BlockedRejected == [][C3_BlockedStep]_vars

C3_Witness ==
    \E id \in Identifiers :
        /\ blockedAt[id] # NoTime
        /\ now = blockedAt[id] + BLOCK_DURATION_MS
        /\ HasRecord(attempts, id) /\ attempts[id].blocked
        /\ resp.status = 429 /\ resp.password = "right"

\* C5: three consecutive wrong-secret login attempts for one e-mail from one
\* origin: the response to the third has the rate-limited status 429 and carries
\* the remaining block minutes (60).
KnownIds == {Identifier(e, i) : e \in {x \in LoginEmails : Len(QueryUsers(x)) > 0},
                                i \in LoginIps}

C5_ThirdStep ==
    \A id \in KnownIds :
        (/\ ~overlapped
         /\ BagSize(reqs) = 1 /\ BagSize(reqs') = 0
         /\ Len(trail[id]) = 2 /\ Len(trail'[id]) = 3
         /\ trail'[id][3] - trail'[id][1] <= WINDOW_MS)
        => /\ resp'.status = 429
           /\ resp'.minutes = 60

C5_ThirdAttemptRateLimited == [][C5_ThirdStep]_vars

\* a suspended request that fails when it resumes: no account for its e-mail,
\* or a password that does not match
FailsOnResume(r) ==
    \/ r.stage = "query" /\ Len(QueryUsers(r.email)) = 0
    \/ r.stage = "compare" /\ r.password # r.user.password

C12_FailureStep ==
    \A r \in LoginRequests :
        (r \in DOMAIN reqs /\ reqs' = BagRemove(reqs, r) /\ FailsOnResume(r))
        => /\ resp' = [status |-> 401, error |-> "Invalid credentials", minutes |-> 0,
                       token |-> NoToken, password |-> r.password]
           /\ attempts' = RecordFailureMap(attempts, Identifier(r.email, r.ip), now)

\* C12: a login that fails for an unknown e-mail and one that fails for a wrong
\* password give the same response, 401 'Invalid credentials', and apply the
\* same recordFailure to the identifier of the request, so that equal tracker
\* records lead to equal records and equal later blocking.
C12_FailureIndistinguishable == [][C12_FailureStep]_vars

C12_Witness ==
    \E i \in LoginIps :
        LET known == Identifier("A@x.com", i)
            unknown == Identifier("b@x.com", i)
        IN  /\ Len(QueryUsers("A@x.com")) = 1 /\ Len(QueryUsers("b@x.com")) = 0
            /\ HasRecord(attempts, known) /\ HasRecord(attempts, unknown)
            /\ attempts[known] = attempts[unknown]
            /\ attempts[known].count = 2
            /\ resp.status = 401 /\ resp.error = "Invalid credentials"

C13_MinutesStep ==
    \A e \in LoginEmails, p \in LoginPasswords, i \in LoginIps :
        (LoginStart(e, p, i, MaxLoad) /\ resp'.status = 429)
        => LET id == Identifier(e, i)
           IN  /\ resp'.minutes = Ceil(blockedAt[id] + BLOCK_DURATION_MS - now, MINUTE_MS)
               /\ resp'.minutes >= 1
               /\ resp'.minutes <= 60

\* C13: every 429 that login sends reports the remaining block time rounded up
\* to whole minutes, a number between 1 and 60, never 0 or negative, also for a
\* request that arrives exactly 60 minutes after the block started.
C13_RemainingMinutes == [][C13_MinutesStep]_vars

\* C6: under concurrent login requests for one identifier a Blocked record
\* leaves Blocked only because its block duration elapsed, never because a login
\* for that identifier succeeded.
C6_LeaveBlockedStep ==
    \A id \in Identifiers :
        (/\ HasRecord(attempts, id) /\ attempts[id].blocked
         /\ ~(HasRecord(attempts', id) /\ attempts'[id].blocked))
        => now > blockedAt[id] + BLOCK_DURATION_MS

C6_NoSuccessWhileBlocked == [][C6_LeaveBlockedStep]_vars

\* the requests for id that are at the password comparison
Verifying(id) ==
    SumOver([r \in DOMAIN reqs |-> IF Identifier(r.email, r.ip) = id /\ r.stage = "compare"
                                       THEN reqs[r] ELSE 0],
            DOMAIN reqs)

\* C7: under concurrent login requests for one identifier, counted from a
\* Clean record and within one window, at most threshold + 1 (= 4) requests
\* reach credential verification: those at the password comparison and those
\* it has already failed.
C7_AtMostOneExtra ==
    now <= WINDOW_MS =>
        \A id \in KnownIds : Verifying(id) + Len(trail[id]) <= MAX_ATTEMPTS + 1

----------------------------------------------------------------------------
(* Properties of authenticate and logout *)

\* the time at which a step removes blacklist entries: the last sweep on the
\* way when time passes, the present otherwise
RemovalTime == IF now' # now THEN LastSweepBefore(now') ELSE now

C1_Rejected ==
    authResp.revoked =>
        /\ ~authResp.next
        /\ authResp.status = 401
        /\ authResp.user = NoUser

C1_RemovalStep ==
    \A tk \in loggedOut' :
        (tk \in DOMAIN blacklist /\ tk \notin DOMAIN blacklist')
            => JwtVerify(tk, RemovalTime) = "jwt expired"

\* C1: once logout has answered 200 for a bearer token that login issued (and
\* clearAll has not been called since), every later authenticate call with that
\* token is rejected with 401 and does not call next(), before and after the
\* token's expiry; the token's blacklist entry is removed, by isBlacklisted or
\* by a sweep, only at a time at which jwt.verify already fails as expired.
C1_RevocationPersists == []C1_Rejected /\ [][C1_RemovalStep]_vars

C1_Witness ==
    /\ authResp.revoked
    /\ authResp.token \in held \cap loggedOut
    /\ authResp.token \notin DOMAIN blacklist
    /\ authResp.status = 401 /\ authResp.error = "Invalid or expired token"
    /\ ~authResp.next
    /\ now > authResp.token.exp * 1000

C2_Step ==
    \A h \in Headers :
        (authResp'.turn # authResp.turn /\ authResp'.scheme = h.scheme
            /\ authResp'.token = h.token)
        => LET tk == h.token
               accepted ==
                   /\ h.scheme = "Bearer"
                   /\ ~(tk \in DOMAIN blacklist /\ now <= blacklist[tk])
                   /\ secret
                   /\ tk.sig = "server"
                   /\ ~(tk.exp # NoTime /\ now >= tk.exp * 1000)
                   /\ tk.payload.id # 0 /\ tk.payload.email # ""
                   /\ tk.payload.username # ""
           IN  /\ authResp'.next = accepted
               /\ accepted =>
                      /\ authResp'.status = 0
                      /\ tk \notin DOMAIN blacklist'
                      /\ authResp'.user # NoUser
                      /\ authResp'.user.id = tk.payload.id
                      /\ authResp'.user.email = tk.payload.email
                      /\ authResp'.user.username = tk.payload.username
               /\ ~accepted =>
                      /\ authResp'.status \in {401, 500}
                      /\ authResp'.user = NoUser

\* C2: a call of authenticate calls next() and attaches an identity exactly
\* when the header starts with "Bearer ", the token has no live blacklist
\* entry, JWT_SECRET is set, the token is signed with it and not expired, and
\* its payload carries id, email and username; in every other case it answers
\* 401 or 500, attaches nothing and does not call next().
C2_AuthenticateOutcomes == [][C2_Step]_vars

C2_Witness ==
    /\ authResp.next
    /\ authResp.status = 0
    /\ authResp.token \in held
    /\ authResp.user = RequestUser(authResp.token.payload)
    /\ now = authResp.token.exp * 1000 - 1

C18_MessageStep ==
    \A h \in Headers :
        (authResp'.turn # authResp.turn /\ authResp'.scheme = h.scheme
            /\ authResp'.token = h.token /\ h.scheme = "Bearer")
        => LET tk == h.token
               revoked == tk \in DOMAIN blacklist /\ now <= blacklist[tk]
               unverifiable ==
                   \/ tk.sig # "server"
                   \/ tk.exp # NoTime /\ now >= tk.exp * 1000
           IN  /\ revoked
                   => /\ authResp'.status = 401
                      /\ authResp'.error = "Token has been invalidated. Please login again."
               /\ (~revoked /\ secret /\ unverifiable)
                   => /\ authResp'.status = 401
                      /\ authResp'.error = "Invalid or expired token"
               /\ authResp'.error = "Token has been invalidated. Please login again."
                   => revoked

\* C18: authenticate answers a revoked token that has not expired with 401 and
\* 'Token has been invalidated. Please login again.', a message it uses for no
\* other rejection; a token that is not revoked and fails verification, as
\* malformed, wrongly signed or expired, gets the one message 'Invalid or
\* expired token'; the revocation check comes first, so a revoked token gets
\* the revocation message whatever its signature.
C18_RevokedMessage == [][C18_MessageStep]_vars

C18_Witness ==
    /\ authResp.revoked
    /\ authResp.token \in held
    /\ now < authResp.token.exp * 1000
    /\ authResp.status = 401
    /\ authResp.error = "Token has been invalidated. Please login again."
    /\ ~authResp.next

\* C19: a missing JWT_SECRET is fatal at startup: without the secret the
\* server never accepts requests, so no login or authenticate call runs
\* without it and none turns the missing secret into an error response (500).
C19_SecretFatalAtStartup ==
    ~secret =>
        /\ authResp.status # 500
        /\ resp.status # 500

C20_Decision ==
    (adminResp.next \/ adminResp.status # 0) =>
        /\ adminResp.next <=> (adminResp.user # NoUser /\ adminResp.user.role = "admin")
        /\ adminResp.next => adminResp.status = 0
        /\ ~adminResp.next
              => (adminResp.status = 403 /\ adminResp.error = "Admin access required")

C20_PureStep ==
    adminResp' # adminResp =>
        /\ adminResp'.user = authResp.user
        /\ UNCHANGED <<now, attempts, reqs, resp, secret, held, blacklist, sweepDue,
                       authResp, outResp>>

\* C20: requireAdmin calls next() if and only if the request carries an
\* attached identity whose role equals 'admin'; otherwise it answers 403 and
\* does not call next(); it decides from the attached identity alone and
\* changes no state.
C20_RequireAdmin == []C20_Decision /\ [][C20_PureStep]_vars

C20_Witness ==
    /\ adminResp.status = 403 /\ ~adminResp.next
    /\ adminResp.user # NoUser
    /\ adminResp.user.role = "editor"
    /\ authResp.next /\ authResp.user = adminResp.user

\* the record is blocked and its block duration has not elapsed
LiveBlocked(id) ==
    /\ HasRecord(attempts, id) /\ attempts[id].blocked
    /\ now - attempts[id].firstAttempt <= BLOCK_DURATION_MS

\* a request for the identifier resumes with the right password
SuccessResumes(id) ==
    \E r \in DOMAIN reqs :
        /\ r.stage = "compare" /\ Identifier(r.email, r.ip) = id
        /\ BcryptCompare(r.password, r.user.password)
        /\ reqs' = BagRemove(reqs, r)

C26_Calls ==
    \A id \in KnownIds :
        LiveBlocked(id) =>
            /\ RecordFailureMap(attempts, id, now) = attempts
            /\ IsBlockedMap(attempts, id, now) = attempts
            /\ GetBlockTimeRemaining(attempts, id, now) >= 0

C26_KeptStep ==
    \A id \in KnownIds :
        (LiveBlocked(id) /\ ~SuccessResumes(id)) =>
            /\ HasRecord(attempts', id)
            /\ attempts'[id] = attempts[id]

\* C26: a record that is Blocked and whose block duration has not elapsed is
\* left unchanged by isBlocked, getBlockTimeRemaining and recordFailure:
\* further failures, including those of login requests that passed the block
\* check before the block engaged, do not raise the count and do not restart
\* or extend the block timer, and the 15-minute window expiry never resets a
\* blocked record.
C26_BlockedUnchanged == []C26_Calls /\ [][C26_KeptStep]_vars

C26_Witness ==
    \E id \in KnownIds :
        /\ Len(trail[id]) = MAX_ATTEMPTS + 1
        /\ trail[id][MAX_ATTEMPTS] + WINDOW_MS < trail[id][MAX_ATTEMPTS + 1]
        /\ now = trail[id][MAX_ATTEMPTS + 1]
        /\ attempts[id] = [count |-> MAX_ATTEMPTS, firstAttempt |-> trail[id][MAX_ATTEMPTS],
                           blocked |-> TRUE]
        /\ resp.status = 401

----------------------------------------------------------------------------
(* Properties of a session *)

\* authenticate has just answered a request that presents a token login
\* issued and no logout has named
AnswersIssued(rec) ==
    /\ authResp'.turn # authResp.turn
    /\ authResp'.scheme = "Bearer"
    /\ authResp'.token = rec.token
    /\ rec.token \notin loggedOut

C21_LifetimeStep ==
    \A rec \in issued :
        AnswersIssued(rec) =>
            /\ now < rec.at + EXPIRES_IN_S * 1000 => authResp'.next
            /\ now >= rec.at + EXPIRES_IN_S * 1000
                  => (authResp'.status = 401 /\ ~authResp'.next)

\* C21: a token issued by login at time T and never revoked is accepted by
\* authenticate at every time before T + 24 hours and rejected with 401 at
\* every time from T + 24 hours on.
C21_TokenLifetime == [][C21_LifetimeStep]_vars

\* the instant from which a token signed at t is expired: 24 hours after the
\* start of the second in which it was signed
ExpiryInstant(t) == (ClockTimestamp(t) + EXPIRES_IN_S) * 1000

C21_LifetimeInSecondsStep ==
    \A rec \in issued :
        AnswersIssued(rec) =>
            /\ now < ExpiryInstant(rec.at) => authResp'.next
            /\ now >= ExpiryInstant(rec.at)
                  => (/\ authResp'.status = 401 /\ ~authResp'.next
                      /\ authResp'.error = "Invalid or expired token")

\* C21 (amended): a token issued by login at time T and never revoked is
\* accepted by authenticate at every time before 24 hours after the start of
\* the second of T, and rejected with 401 from that instant on; the lifetime
\* is between 24 hours less 999 ms and 24 hours.
C21_TokenLifetimeInSeconds == [][C21_LifetimeInSecondsStep]_vars

C21_Witness ==
    \E rec \in issued :
        /\ rec.at % 1000 # 0
        /\ authResp.token = rec.token /\ authResp.scheme = "Bearer"
        /\ rec.token \notin loggedOut
        /\ now = ExpiryInstant(rec.at)
        /\ now < rec.at + EXPIRES_IN_S * 1000
        /\ authResp.status = 401 /\ authResp.error = "Invalid or expired token"

C22_RoundTripStep ==
    \A rec \in issued :
        (AnswersIssued(rec) /\ authResp'.next) =>
            /\ authResp'.user.id = rec.user.id
            /\ authResp'.user.email = rec.user.email
            /\ authResp'.user.username = rec.user.username
            /\ authResp'.user.role = rec.user.role
            /\ users' = users

\* C22: when authenticate accepts a token, the id, email, username and role
\* it attaches to the request equal the values login put into that token at
\* issuance; authenticate never reads the account store, so a change to the
\* account made after issuance is not reflected until a new token is issued.
C22_RoundTrip == [][C22_RoundTripStep]_vars

C22_Witness ==
    \E old, new \in issued :
        /\ old.user = UserRow /\ new.user = RenamedRow
        /\ authResp.rows = <<RenamedRow>>
        /\ authResp.next /\ authResp.token = old.token
        /\ authResp.user.username = UserRow.username

\* the header carries a bearer token that decodes and has a non-zero exp claim
Storable(h) ==
    /\ h.scheme = "Bearer"
    /\ h.token.sig # "none"
    /\ h.token.exp # NoTime /\ h.token.exp # 0

C23_LogoutStep ==
    \A h \in LogoutHeaders :
        Logout(h) =>
            /\ outResp'.status = 200
            /\ DOMAIN blacklist \subseteq DOMAIN blacklist'
            /\ \A tk \in DOMAIN blacklist : tk # h.token => blacklist'[tk] = blacklist[tk]
            /\ DOMAIN blacklist' \ DOMAIN blacklist \subseteq {h.token}
            /\ Storable(h) => (/\ h.token \in DOMAIN blacklist'
                               /\ blacklist'[h.token] = h.token.exp * 1000)
            /\ ~Storable(h) => blacklist' = blacklist
            /\ UNCHANGED <<attempts, trail, blockedAt>>

\* C23: logout always answers 200, whether the Authorization header is
\* absent, malformed, or carries a token that is undecodable, expired or
\* already revoked; it adds a blacklist entry only when the bearer token
\* decodes with an exp claim, storing exp * 1000, and it never removes a
\* blacklist entry nor touches the attempt tracker.
C23_LogoutAlwaysSucceeds == [][C23_LogoutStep]_vars

C23_Witness ==
    /\ outResp.status = 200
    /\ now > StaleToken.exp * 1000 + SWEEP_MS
    /\ DOMAIN blacklist = {StaleToken}
    /\ blacklist[StaleToken] = StaleToken.exp * 1000
    /\ \E id \in TrackerIds : HasRecord(attempts, id)

\* login has returned the token
IssuedByLogin(tk) == \E rec \in issued : rec.token = tk

\* C29: every token for which authenticate answers with the revoked message
\* was issued by a successful login, and no sequence of logout requests
\* creates a blacklist entry for a token that login never issued.
C29_RevokedWereIssued ==
    authResp.error = "Token has been invalidated. Please login again."
        => (IssuedByLogin(authResp.token) /\ \A tk \in DOMAIN blacklist : IssuedByLogin(tk))

----------------------------------------------------------------------------
(* Properties of the blacklist *)

C14_CallTwice ==
    \A tk \in BlTokens, e \in BlExpiries :
        LET once == BlacklistToken(blacklist, tk, e)
            twice == BlacklistToken(once, tk, e)
        IN  /\ twice = once
            /\ now <= e => (IsBlacklistedRet(once, tk, now) /\ IsBlacklistedRet(twice, tk, now))

C14_LogoutTwice ==
    \A h \in BlHeaders :
        LET once == LogoutMap(blacklist, h)
            twice == LogoutMap(once, h)
        IN  /\ twice = once
            /\ now <= h.token.exp * 1000
                  => (IsBlacklistedRet(once, h.token, now) /\ IsBlacklistedRet(twice, h.token, now))

\* C14: blacklistToken(t, e) called twice leaves the blacklist as one call
\* leaves it, and isBlacklisted(t) is true after either while now <= e; logout
\* of one token twice leaves the blacklist as one logout leaves it.
C14_IdempotentRevocation == C14_CallTwice /\ C14_LogoutTwice

C14_Witness ==
    /\ PrevCall.op = "blacklistToken" /\ LastCall.op = "isBlacklisted"
    /\ PrevCall.id = LastCall.id
    /\ PrevCall.pre = PrevCall.arg
    /\ now = PrevCall.arg
    /\ LastCall.ret
    /\ blacklist[LastCall.id] = PrevCall.arg

\* C15: isBlacklisted called for a token whose stored expiry is in the past
\* (now > expiry) returns false and the entry is absent afterwards; called with
\* now <= expiry it returns true and leaves the entry in place; a call for any
\* token never changes the entry of another token.
C15_LazyExpiry ==
    \A tk \in BlTokens :
        LET ret == IsBlacklistedRet(blacklist, tk, now)
            after == IsBlacklistedMap(blacklist, tk, now)
        IN  /\ (tk \in DOMAIN blacklist /\ now > blacklist[tk])
                => (~ret /\ tk \notin DOMAIN after)
            /\ (tk \in DOMAIN blacklist /\ now <= blacklist[tk])
                => (ret /\ tk \in DOMAIN after /\ after[tk] = blacklist[tk])
            /\ \A other \in BlTokens \ {tk} :
                  /\ other \in DOMAIN after <=> other \in DOMAIN blacklist
                  /\ other \in DOMAIN blacklist => after[other] = blacklist[other]

C15_Witness ==
    /\ LastCall.op = "isBlacklisted" /\ ~LastCall.ret
    /\ LastCall.pre # NoTime
    /\ now = LastCall.pre + 1
    /\ LastCall.id \notin DOMAIN blacklist
    /\ \E other \in BlTokens \ {LastCall.id} :
          other \in DOMAIN blacklist /\ blacklist[other] < now

C16_SweepStep ==
    sweepDue' # sweepDue =>
        /\ DOMAIN blacklist' = {tk \in DOMAIN blacklist : blacklist[tk] >= RemovalTime}
        /\ \A tk \in DOMAIN blacklist' : blacklist'[tk] = blacklist[tk]

\* C16: after one run of cleanup at time now the blacklist holds exactly the
\* entries it held before whose expiry is >= now: every entry with an expiry in
\* the past is removed, every other entry stays with its expiry unchanged.
C16_SweepConvergence == [][C16_SweepStep]_vars

C16_Witness ==
    /\ now = SWEEP_MS /\ sweepDue = 2 * SWEEP_MS
    /\ LastCall.op = "blacklistToken" /\ LastCall.arg < now
    /\ LastCall.id \notin DOMAIN blacklist
    /\ \E tk \in BlTokens : tk \in DOMAIN blacklist /\ blacklist[tk] = now

\* C17: while the hourly cleanup timer is running, no blacklist entry stays in
\* the map more than one cleanup interval (1 hour) after its stored expiry,
\* for every sequence of logouts, also of tokens already expired when revoked.
C17_BoundedRetention ==
    \A tk \in DOMAIN blacklist : now <= blacklist[tk] + SWEEP_MS

\* once shutdown has begun the interval is cleared
C30_ClearedOnShutdown == proc.phase # "running" => ~proc.timer

\* with the interval cleared, or the shutdown begun, no cleanup runs, and while
\* it is set cleanup runs at the multiples of an hour after construction
C30_SweepStep ==
    /\ (~proc.timer \/ proc.phase # "running") => sweepDue' = sweepDue
    /\ sweepDue' # sweepDue => (sweepDue' % SWEEP_MS = 0 /\ sweepDue' > sweepDue)

\* C30: the periodic sweep starts at construction and fires every hour, after
\* destroy() no further cleanup run ever happens, and the server's graceful
\* shutdown cancels it so that no sweep timer is left running when the
\* process shuts down.
C30_CancellableSweep == []C30_ClearedOnShutdown /\ [][C30_SweepStep]_vars

====
